---- MODULE Spec2Model ----
(***************************************************************************)
(* Model of the Cloudinary toggle demo: the toggle state, the asset        *)
(* builder, the media renderer, the text overlay dialog and the click      *)
(* router.  The repository holds three near-duplicate copies of the        *)
(* script; the variable `variant` says which copy is running:              *)
(*   "main"   src/unnamed/part_000                                         *)
(*   "first"  src/script.js lines 1-303                                    *)
(*   "second" src/script.js lines 305-490                                  *)
(* Strings are sequences of chunks (a chunk is a word or one character),   *)
(* so that trim, URL escaping and the colour rewrite are computed.         *)
(***************************************************************************)
EXTENDS Integers, Sequences, FiniteSets, TLC

VARIABLES
  variant,        \* which copy of the script runs
  state,          \* the `state` object
  active,         \* per button: does it carry the "active" class
  dlgOpen,        \* is #textDialog showing (modal)
  txtValue,       \* #dlgText.value
  colValue,       \* #dlgColor.value
  okL,            \* opens whose click listener is registered on #dlgOK
  cancelL,        \* opens whose click listener is registered on #dlgCancel
  closeL,         \* opens whose close listener is registered on #textDialog
  closeQueued,    \* a close event of the dialog is queued and not yet fired
  nOpen,          \* number of openTextDialog calls so far
  settled,        \* per open: its promise ("pending" / "null" / "value")
  width,          \* #photoContainer style width
  media,          \* the element #photo inside the container
  nElem,          \* number of media elements created so far
  pending,        \* loads in flight: one record per outstanding load
  resolved,       \* renders whose promise has resolved
  nBuild,         \* number of buildAsset calls so far
  nRender,        \* number of renderAsset calls so far
  asset,          \* the descriptor returned by the latest buildAsset
  nOverlap,       \* number of renders started while a load was in flight
  last,           \* the latest event handled
  prev            \* the `state` object before the latest event

vars == <<variant, state, active, dlgOpen, txtValue, colValue, okL, cancelL,
          closeL, closeQueued, nOpen, settled, width, media,
          nElem, pending, resolved, nBuild, nRender, asset, nOverlap, last, prev>>

dialogVars == <<dlgOpen, txtValue, colValue, okL, cancelL, closeL,
                closeQueued, nOpen, settled>>
domVars    == <<width, media, nElem, pending, resolved, nBuild, nRender, asset>>

\* Bounds of the model.
MaxBuilds == 4     \* buildAsset calls, the startup one included
MaxOverlap == 1    \* renders started while an earlier load is still in flight
\* openTextDialog calls: a dialog can be opened again only after a confirmed
\* dialog and a text-off click, two builds
MaxOpens  == MaxBuilds \div 2

Variants == {"main", "first", "second"}

Flags   == {"text", "square", "toon", "sepia", "gray", "video", "enhance"}
Effects == {"sepia", "toon", "gray", "enhance"}

\* ------------------------------------------------------------------ strings
SP == " "

HelloWorld      == <<"Hello", SP, "World!">>
HelloCloudinary == <<"Hello", SP, "Cloudinary">>
White           == <<"#", "ffffff">>
Red             == <<"#", "ff0000">>

\* What the user may type into #dlgText and pick in #dlgColor.
TypedTexts   == { <<SP>>, <<SP, "Hi", SP, "you", SP>> }
PickedColors == { Red }

HexBodies == {"ffffff", "ff0000"}

\* String.prototype.trim
RECURSIVE TrimLeft(_)
TrimLeft(s) == IF s # <<>> /\ Head(s) = SP THEN TrimLeft(Tail(s)) ELSE s

RECURSIVE TrimRight(_)
TrimRight(s) ==
  IF s # <<>> /\ s[Len(s)] = SP THEN TrimRight(SubSeq(s, 1, Len(s) - 1)) ELSE s

Trim(s) == TrimRight(TrimLeft(s))

\* encodeURIComponent: a space becomes %20; letters, digits and ! are kept
EncodeURIComponent(s) == [i \in 1..Len(s) |-> IF s[i] = SP THEN "%20" ELSE s[i]]

StartsWithHash(v) == v # <<>> /\ Head(v) = "#"

\* ------------------------------------------------------------ toggle state
\* The `state` object as the script creates it.
InitialState(v) ==
  [ text |-> FALSE, square |-> FALSE, toon |-> FALSE, sepia |-> FALSE,
    gray |-> FALSE, video |-> FALSE, enhance |-> FALSE,
    textContent |-> IF v = "second" THEN HelloCloudinary ELSE HelloWorld,
    textColor   |-> White ]

NoMarkers == [f \in Flags |-> FALSE]

\* setButtonActive(effect, on)
SetButtonActive(a, effect, on) == [a EXCEPT ![effect] = on]

\* A reset that clears the effect and video flags only.
ResetEffectsOnly(s) ==
  [k \in DOMAIN s |-> IF k \in Effects \cup {"video"} THEN FALSE ELSE s[k]]

\* resetToggles: every key but textContent / textColor becomes false
ResetToggles(s) ==
  [k \in DOMAIN s |-> IF k = "textContent" \/ k = "textColor" THEN s[k] ELSE FALSE]

\* A reset that unmarks the effect and video buttons only.
ResetMarkersEffectsOnly(a) ==
  [f \in DOMAIN a |-> IF f \in Effects \cup {"video"} THEN FALSE ELSE a[f]]

\* resetToggles: every .btn loses the "active" class
ResetMarkers(a) == [f \in DOMAIN a |-> FALSE]

\* "Generic toggle": state[effectKey] = !state[effectKey]
ToggleFlag(s, effectKey) == [s EXCEPT ![effectKey] = ~s[effectKey]]

\* A video rule that also drops the text overlay.
VideoExclusivityClearsText(s, effectKey, next) ==
  IF effectKey = "video" /\ next
  THEN [k \in DOMAIN s |-> IF k \in Effects \cup {"text"} THEN FALSE ELSE s[k]]
  ELSE s

\* A video rule that knows only the three original effects.
VideoExclusivityOldList(s, effectKey, next) ==
  IF effectKey = "video" /\ next
  THEN [k \in DOMAIN s |-> IF k \in {"sepia", "toon", "gray"} THEN FALSE ELSE s[k]]
  ELSE s

\* If Video was turned on, disable the visual effects that clash with it.
VideoExclusivity(s, effectKey, next) ==
  IF effectKey = "video" /\ next
  THEN [k \in DOMAIN s |-> IF k \in Effects THEN FALSE ELSE s[k]]
  ELSE s

\* A video rule that clears the flags and leaves the buttons marked.
VideoExclusivityKeepsMarkers(a, s, effectKey, next) == a

\* ... and each effect that was on loses its marker
VideoExclusivityMarkers(a, s, effectKey, next) ==
  IF effectKey = "video" /\ next
  THEN [f \in DOMAIN a |-> IF f \in Effects /\ s[f] THEN FALSE ELSE a[f]]
  ELSE a

\* An effect rule that never turns video off.
EffectExclusivityMissing(s, effectKey, next) == s

\* If a visual effect was turned on, make sure Video is off.
EffectExclusivity(s, effectKey, next) ==
  IF effectKey \in Effects /\ next /\ s.video
  THEN [s EXCEPT !.video = FALSE]
  ELSE s

EffectExclusivityMarkers(a, s, effectKey, next) ==
  IF effectKey \in Effects /\ next /\ s.video
  THEN SetButtonActive(a, "video", FALSE)
  ELSE a

\* The synchronous state mutation of the generic toggle branch.
\* A generic toggle that rebuilds right after the flip, before the two rules.
ToggleStateNoRules(s, effectKey) == ToggleFlag(s, effectKey)

ToggleState(s, effectKey) ==
  LET s1   == ToggleFlag(s, effectKey)
      next == s1[effectKey]
      s2   == VideoExclusivity(s1, effectKey, next)
  IN  EffectExclusivity(s2, effectKey, next)

ToggleMarkers(a, s, effectKey) ==
  LET s1   == ToggleFlag(s, effectKey)
      next == s1[effectKey]
      a1   == SetButtonActive(a, effectKey, next)
      a2   == VideoExclusivityMarkers(a1, s1, effectKey, next)
      s2   == VideoExclusivity(s1, effectKey, next)
  IN  EffectExclusivityMarkers(a2, s2, effectKey, next)

\* ------------------------------------------------------------ asset builder
FRAME_WIDE   == [w |-> 500, h |-> 333]
FRAME_SQUARE == [w |-> 333, h |-> 333]

\* One transformation instruction of the URL.
Instr(op, name, w, h, text, color) ==
  [op |-> op, name |-> name, w |-> w, h |-> h, text |-> text, color |-> color]

Raw(name)            == Instr("raw", name, 0, 0, <<>>, <<>>)
Resize(frame)        == Instr("fill", "", frame.w, frame.h, <<>>, <<>>)
Effect(name)         == Instr("effect", name, 0, 0, <<>>, <<>>)
Overlay(text, color) == Instr("overlay", "text:Arial_34_bold", 0, 0, text, color)
LayerApply           == Instr("layer_apply", "south", 0, 10, <<>>, <<>>)

\* toCloudinaryColor (the second copy has the same expression inline)
toCloudinaryColor(value) ==
  IF StartsWithHash(value) THEN <<"rgb:">> \o Tail(value)
  ELSE IF value = <<>> THEN <<"white">> ELSE value

\* the colour put into the overlay instruction
OverlayColor(v, s) ==
  IF v = "first" THEN s.textColor ELSE toCloudinaryColor(s.textColor)

\* the text put into the overlay instruction
OverlayText(v, s) ==
  IF v = "second" /\ s.textContent = <<>>
  THEN EncodeURIComponent(HelloCloudinary)
  ELSE EncodeURIComponent(s.textContent)

\* A frame choice that serves video in the wide frame only.
FrameWideVideo(s) == IF s.square /\ ~s.video THEN FRAME_SQUARE ELSE FRAME_WIDE

Frame(s) == IF s.square THEN FRAME_SQUARE ELSE FRAME_WIDE

\* The effect lines with sepia pushed before cartoonify.
EffectStepsSepiaFirst(s) ==
     (IF s.enhance THEN <<Effect("enhance")>>       ELSE <<>>)
  \o (IF s.sepia   THEN <<Effect("sepia")>>         ELSE <<>>)
  \o (IF s.toon    THEN <<Effect("cartoonify:20")>> ELSE <<>>)
  \o (IF s.gray    THEN <<Effect("grayscale")>>     ELSE <<>>)

\* the four `if (state.x) steps.push({effect: ...})` lines
EffectSteps(s) ==
     (IF s.enhance THEN <<Effect("enhance")>>       ELSE <<>>)
  \o (IF s.toon    THEN <<Effect("cartoonify:20")>> ELSE <<>>)
  \o (IF s.sepia   THEN <<Effect("sepia")>>         ELSE <<>>)
  \o (IF s.gray    THEN <<Effect("grayscale")>>     ELSE <<>>)

\* the `if (state.text) steps.push(overlay, layer_apply)` block
TextSteps(v, s) ==
  IF s.text THEN <<Overlay(OverlayText(v, s), OverlayColor(v, s)), LayerApply>>
  ELSE <<>>

\* `steps` / `chain`: the second copy pushes the text block first
Steps(v, s) ==
  IF v = "second" THEN TextSteps(v, s) \o EffectSteps(s)
  ELSE EffectSteps(s) \o TextSteps(v, s)

\* the base asset and the transformations added before `steps`
BaseTransformations(v, s) ==
  IF s.video
  THEN IF v = "second"
       THEN <<Raw("e_zoompan:from_(g_auto;zoom_3.2);du_10;fps_30")>>
       ELSE <<Raw("f_mp4"), Raw("e_zoompan:from_(g_auto;zoom_3.2);du_10;fps_30")>>
  ELSE <<>>

PublicId(v, s) == IF v = "second" /\ s.video THEN "sample.mp4" ELSE "sample"

\* buildAsset: { type, url, width }; the url is kept as its instruction list
BuildAsset(v, s) ==
  [ type  |-> IF s.video THEN "video" ELSE "image",
    url   |-> [ publicId |-> PublicId(v, s),
                tr |-> BaseTransformations(v, s) \o <<Resize(Frame(s))>> \o Steps(v, s) ],
    width |-> Frame(s).w ]

\* ----------------------------------------------------------- media renderer
NoSrc   == [publicId |-> "", tr |-> <<>>]
HtmlSrc == [publicId |-> "html", tr |-> <<>>]   \* src of an <img> of the page

NoMedia  == [id |-> 0, tag |-> "NONE", src |-> NoSrc, hidden |-> TRUE]
PageImg  == [id |-> 1, tag |-> "IMG", src |-> HtmlSrc, hidden |-> FALSE]

\* A test that creates an element only when the container holds none.
NeedsReplaceAbsentOnly(m, needVideo) == m.tag = "NONE"

\* "If the current element type is wrong (or absent), replace it"
NeedsReplace(m, needVideo) ==
  \/ m.tag = "NONE"
  \/ (needVideo /\ m.tag # "VIDEO")
  \/ (~needVideo /\ m.tag = "VIDEO")

\* A renderAsset that leaves the container width as it is.
RenderAssetKeepsWidth(dom, rid, d) ==
  LET needVideo == d.type = "video"
      replace   == NeedsReplace(dom.media, needVideo)
      m1 == IF replace
            THEN [id |-> dom.nElem + 1,
                  tag |-> IF needVideo THEN "VIDEO" ELSE "IMG",
                  src |-> NoSrc, hidden |-> TRUE]
            ELSE [dom.media EXCEPT !.hidden = TRUE]
      m2 == IF needVideo THEN [m1 EXCEPT !.src = d.url] ELSE m1
      kept == IF needVideo
              THEN {p \in dom.pending : ~(p.type = "video" /\ p.el = m2.id)}
              ELSE dom.pending
  IN  [ width   |-> dom.width,
        media   |-> m2,
        nElem   |-> IF replace THEN dom.nElem + 1 ELSE dom.nElem,
        pending |-> kept \cup {[rid |-> rid, el |-> m2.id, type |-> d.type, url |-> d.url]} ]

\* The synchronous part of renderAsset, as a function of the DOM
\* (dom = [width, media, nElem, pending]), the render's number and the
\* descriptor.  A load on a <video> aborts the load the element was running.
RenderAsset(dom, rid, d) ==
  LET needVideo == d.type = "video"
      replace   == NeedsReplace(dom.media, needVideo)
      m1 == IF replace
            THEN [id |-> dom.nElem + 1,
                  tag |-> IF needVideo THEN "VIDEO" ELSE "IMG",
                  src |-> NoSrc, hidden |-> TRUE]
            ELSE [dom.media EXCEPT !.hidden = TRUE]
      m2 == IF needVideo THEN [m1 EXCEPT !.src = d.url] ELSE m1
      kept == IF needVideo
              THEN {p \in dom.pending : ~(p.type = "video" /\ p.el = m2.id)}
              ELSE dom.pending
  IN  [ width   |-> d.width,
        media   |-> m2,
        nElem   |-> IF replace THEN dom.nElem + 1 ELSE dom.nElem,
        pending |-> kept \cup {[rid |-> rid, el |-> m2.id, type |-> d.type, url |-> d.url]} ]

Dom == [width |-> width, media |-> media, nElem |-> nElem, pending |-> pending]

\* updateImage: buildAsset, then renderAsset of what it returned
UpdateImage(s) ==
  LET d == BuildAsset(variant, s)
      r == RenderAsset(Dom, nRender + 1, d)
  IN  /\ asset'   = d
      /\ nBuild'  = nBuild + 1
      /\ nRender' = nRender + 1
      /\ width'   = r.width
      /\ media'   = r.media
      /\ nElem'   = r.nElem
      /\ pending' = r.pending
      /\ UNCHANGED resolved

\* A completion that looks up #photo when it fires, not when it was set up.
LoadCompleteAnyElement(p) ==
  /\ p \in pending
  /\ pending'  = pending \ {p}
  /\ resolved' = resolved \cup {p.rid}
  /\ media' = IF p.type = "video" THEN [media EXCEPT !.hidden = FALSE]
              ELSE [media EXCEPT !.src = p.url, !.hidden = FALSE]
  /\ last' = [ev |-> "load", key |-> ""]
  /\ prev' = state
  /\ UNCHANGED <<variant, state, active, dialogVars, width, nElem, nBuild, nRender,
                 asset, nOverlap>>

\* A completion that is discarded unless it belongs to the latest render.
LoadCompleteLatestOnly(p) ==
  /\ p \in pending
  /\ pending'  = pending \ {p}
  /\ resolved' = resolved \cup {p.rid}
  /\ media' = IF p.el # media.id \/ p.rid # nRender THEN media
              ELSE IF p.type = "video" THEN [media EXCEPT !.hidden = FALSE]
              ELSE [media EXCEPT !.src = p.url, !.hidden = FALSE]
  /\ last' = [ev |-> "load", key |-> ""]
  /\ prev' = state
  /\ UNCHANGED <<variant, state, active, dialogVars, width, nElem, nBuild, nRender,
                 asset, nOverlap>>

\* pre.onload / media.onloadeddata of one load in flight
LoadComplete(p) ==
  /\ p \in pending
  /\ pending'  = pending \ {p}
  /\ resolved' = resolved \cup {p.rid}
  /\ media' = IF p.el # media.id THEN media
              ELSE IF p.type = "video" THEN [media EXCEPT !.hidden = FALSE]
              ELSE [media EXCEPT !.src = p.url, !.hidden = FALSE]
  /\ last' = [ev |-> "load", key |-> ""]
  /\ prev' = state
  /\ UNCHANGED <<variant, state, active, dialogVars, width, nElem, nBuild, nRender,
                 asset, nOverlap>>

\* -------------------------------------------------------------- text dialog
\* isHex: /^#?[0-9a-f]{6}$/i on the value with its first "#" removed
RemoveFirstHash(h) ==
  IF \E i \in 1..Len(h) : h[i] = "#"
  THEN LET i == CHOOSE j \in 1..Len(h) : h[j] = "#" /\ \A k \in 1..(j - 1) : h[k] # "#"
       IN  SubSeq(h, 1, i - 1) \o SubSeq(h, i + 1, Len(h))
  ELSE h

isHex(h) ==
  LET r == RemoveFirstHash(h)
  IN  \/ (Len(r) = 1 /\ r[1] \in HexBodies)
      \/ (Len(r) = 2 /\ r[1] = "#" /\ r[2] \in HexBodies)

\* what openTextDialog puts into #dlgText
PrefillText(v, defaultText) ==
  IF v = "second" /\ defaultText = <<>> THEN HelloCloudinary ELSE defaultText

\* what openTextDialog puts into #dlgColor
PrefillColor(defaultHex) ==
  IF defaultHex # <<>> /\ isHex(defaultHex)
  THEN (IF StartsWithHash(defaultHex) THEN defaultHex ELSE <<"#">> \o defaultHex)
  ELSE White

\* A resolve() that overwrites the value of a promise already settled.
SettleAgain(st, i, how) == [st EXCEPT ![i] = how]

\* resolve() of the promise of open i: a settled promise stays as it is
Settle(st, i, how) == IF st[i] = "pending" THEN [st EXCEPT ![i] = how] ELSE st

RECURSIVE SettleAll(_, _, _)
SettleAll(st, ids, how) ==
  IF ids = {} THEN st
  ELSE LET i == CHOOSE j \in ids : TRUE
       IN  SettleAll(Settle(st, i, how), ids \ {i}, how)

\* the listeners that stay registered on #dlgOK after a click on it ({once: true})
OkAfterOk(l) == {}
\* the listeners that stay registered on #dlgCancel after a click on #dlgOK
CancelAfterOk(l) == l
\* the listeners that stay on #dlgOK / #dlgCancel after a click on #dlgCancel
OkAfterCancel(l) == l
CancelAfterCancel(l) == {}

\* A text branch that stores the result without the two `if` guards.
StoreResultUnguarded(s, result) ==
  [s EXCEPT !.textContent = result.text, !.textColor = result.color]

\* what the text branch stores from a confirmed result
StoreResult(s, result) ==
  LET s1 == IF result.text  # <<>> THEN [s  EXCEPT !.textContent = result.text] ELSE s
  IN        IF result.color # <<>> THEN [s1 EXCEPT !.textColor = result.color] ELSE s1

\* the value openTextDialog resolves to: null, or {text, color}
NullResult        == [ok |-> FALSE, text |-> <<>>, color |-> <<>>]
OkResult(txt, col) == [ok |-> TRUE, text |-> Trim(txt), color |-> col]

\* A text branch without the `if (!result) return` line.
TextBranchStateNoReturn(s, result) ==
  [StoreResult(s, result) EXCEPT !.text = ~s.text]

\* The text branch after `await openTextDialog(...)`: the new `state`
TextBranchState(s, result) ==
  IF ~result.ok THEN s                                   \* if (!result) return
  ELSE [StoreResult(s, result) EXCEPT !.text = ~s.text]

\* A text branch that re-renders whatever the dialog returned.
TextBranchAlwaysUpdates(result) == TRUE

\* ... and whether the branch reaches `await updateImage()`
TextBranchUpdates(result) == result.ok

\* The text branch when text is on: no dialog, state.text = !state.text
\* A text-off click that also forgets the saved text and colour.
TextOffStateForgets(s) ==
  [s EXCEPT !.text = ~s.text, !.textContent = HelloWorld, !.textColor = White]

TextOffState(s) == [s EXCEPT !.text = ~s.text]

\* --------------------------------------------------------------- the router
\* A click reaches the button group only when the modal dialog is not showing
\* and the dialog's queued close event (same task source) has been fired.
CanClick == ~dlgOpen /\ ~closeQueued

\* The bounds of the model on a click that starts a rebuild and render.
MayRender == nBuild < MaxBuilds /\ (pending = {} \/ nOverlap < MaxOverlap)

\* counts the renders started while a load is in flight
CountOverlap == nOverlap' = IF pending = {} THEN nOverlap ELSE nOverlap + 1

Event(ev, key) == [ev |-> ev, key |-> key]

\* click on the reset control
ClickReset ==
  /\ CanClick
  /\ MayRender
  /\ state'  = ResetToggles(state)
  /\ active' = ResetMarkers(active)
  /\ UpdateImage(ResetToggles(state))
  /\ CountOverlap
  /\ last' = Event("reset", "")
  /\ prev' = state
  /\ UNCHANGED <<variant, dialogVars>>

\* click on one of square, toon, sepia, gray, video, enhance
ClickToggle(effectKey) ==
  /\ CanClick
  /\ MayRender
  /\ state'  = ToggleState(state, effectKey)
  /\ active' = ToggleMarkers(active, state, effectKey)
  /\ UpdateImage(ToggleState(state, effectKey))
  /\ CountOverlap
  /\ last' = Event("toggle", effectKey)
  /\ prev' = state
  /\ UNCHANGED <<variant, dialogVars>>

\* click on text while text is on
ClickTextOff ==
  /\ CanClick
  /\ MayRender
  /\ state.text
  /\ state'  = TextOffState(state)
  /\ active' = SetButtonActive(active, "text", TextOffState(state).text)
  /\ UpdateImage(TextOffState(state))
  /\ CountOverlap
  /\ last' = Event("textOff", "text")
  /\ prev' = state
  /\ UNCHANGED <<variant, dialogVars>>

\* click on text while text is off: openTextDialog up to dlg.showModal()
ClickTextOn ==
  /\ CanClick
  /\ MayRender
  /\ nOpen < MaxOpens
  /\ ~state.text
  /\ nOpen'    = nOpen + 1
  /\ txtValue' = PrefillText(variant, state.textContent)
  /\ colValue' = PrefillColor(state.textColor)
  /\ okL'      = okL \cup {nOpen + 1}
  /\ cancelL'  = cancelL \cup {nOpen + 1}
  /\ closeL'   = closeL \cup {nOpen + 1}
  /\ settled'  = [i \in 1..(nOpen + 1) |-> IF i <= nOpen THEN settled[i] ELSE "pending"]
  /\ dlgOpen'  = TRUE
  /\ last' = Event("open", "text")
  /\ prev' = state
  /\ UNCHANGED <<variant, state, active, closeQueued, domVars, nOverlap>>

\* the user types into #dlgText
EditText(t) ==
  /\ dlgOpen
  /\ txtValue # t
  /\ txtValue' = t
  /\ last' = Event("edit", "text")
  /\ prev' = state
  /\ UNCHANGED <<variant, state, active, dlgOpen, colValue, okL, cancelL, closeL,
                 closeQueued, nOpen, settled, domVars, nOverlap>>

\* the user picks a colour in #dlgColor
PickColor(c) ==
  /\ dlgOpen
  /\ colValue # c
  /\ colValue' = c
  /\ last' = Event("edit", "color")
  /\ prev' = state
  /\ UNCHANGED <<variant, state, active, dlgOpen, txtValue, okL, cancelL, closeL,
                 closeQueued, nOpen, settled, domVars, nOverlap>>

\* click on #dlgOK: every listener on it runs (dlg.close(); resolve({...})),
\* then the click handler awaiting the promise of this open continues
DialogOK ==
  /\ dlgOpen
  /\ MayRender
  /\ LET result == OkResult(txtValue, colValue)
         now    == SettleAll(settled, okL, "value")
         resume == settled[nOpen] = "pending" /\ now[nOpen] # "pending"
         res    == IF now[nOpen] = "value" THEN result ELSE NullResult
     IN  /\ settled' = now
         /\ okL'     = OkAfterOk(okL)
         /\ cancelL' = CancelAfterOk(cancelL)
         /\ IF resume
            THEN /\ state'  = TextBranchState(state, res)
                 /\ active' = IF res.ok
                              THEN SetButtonActive(active, "text", TextBranchState(state, res).text)
                              ELSE active
                 /\ IF TextBranchUpdates(res)
                    THEN UpdateImage(TextBranchState(state, res))
                    ELSE UNCHANGED domVars
            ELSE UNCHANGED <<state, active, domVars>>
  /\ dlgOpen' = FALSE
  /\ closeQueued' = TRUE
  /\ IF nBuild' = nBuild THEN UNCHANGED nOverlap ELSE CountOverlap
  /\ last' = Event("ok", "text")
  /\ prev' = state
  /\ UNCHANGED <<variant, txtValue, colValue, closeL, nOpen>>

\* click on #dlgCancel: every listener on it runs (dlg.close(); resolve(null))
DialogCancel ==
  /\ dlgOpen
  /\ LET now    == SettleAll(settled, cancelL, "null")
         resume == settled[nOpen] = "pending" /\ now[nOpen] # "pending"
     IN  /\ settled' = now
         /\ okL'     = OkAfterCancel(okL)
         /\ cancelL' = CancelAfterCancel(cancelL)
         /\ IF resume
            THEN /\ state'  = TextBranchState(state, NullResult)
                 /\ active' = active
                 /\ IF TextBranchUpdates(NullResult)
                    THEN UpdateImage(TextBranchState(state, NullResult))
                    ELSE UNCHANGED domVars
            ELSE UNCHANGED <<state, active, domVars>>
  /\ dlgOpen' = FALSE
  /\ closeQueued' = TRUE
  /\ IF nBuild' = nBuild THEN UNCHANGED nOverlap ELSE CountOverlap
  /\ last' = Event("cancel", "text")
  /\ prev' = state
  /\ UNCHANGED <<variant, txtValue, colValue, closeL, nOpen>>

\* the dialog is dismissed without either control (Escape): the browser closes it
DialogDismiss ==
  /\ dlgOpen
  /\ dlgOpen' = FALSE
  /\ closeQueued' = TRUE
  /\ last' = Event("dismiss", "text")
  /\ prev' = state
  /\ UNCHANGED <<variant, state, active, txtValue, colValue, okL, cancelL, closeL,
                 nOpen, settled, domVars, nOverlap>>

\* the queued close event fires: every close listener runs (resolve(null))
CloseEvent ==
  /\ closeQueued
  /\ LET now    == SettleAll(settled, closeL, "null")
         resume == settled[nOpen] = "pending" /\ now[nOpen] # "pending"
     IN  /\ settled' = now
         /\ closeL'  = {}
         /\ IF resume
            THEN /\ state'  = TextBranchState(state, NullResult)
                 /\ active' = active
                 /\ IF TextBranchUpdates(NullResult)
                    THEN UpdateImage(TextBranchState(state, NullResult))
                    ELSE UNCHANGED domVars
            ELSE UNCHANGED <<state, active, domVars>>
  /\ closeQueued' = FALSE
  /\ IF nBuild' = nBuild THEN UNCHANGED nOverlap ELSE CountOverlap
  /\ last' = Event("close", "text")
  /\ prev' = state
  /\ UNCHANGED <<variant, dlgOpen, txtValue, colValue, okL, cancelL, nOpen>>

\* ------------------------------------------------------------ specification
\* The page after the script has run: defaults, and the startup updateImage()
\* up to its await.  The page may or may not already hold an <img id="photo">.
Init ==
  /\ variant \in Variants
  /\ state  = InitialState(variant)
  /\ active = NoMarkers
  /\ dlgOpen = FALSE
  /\ txtValue = <<>>
  /\ colValue = White
  /\ okL = {} /\ cancelL = {} /\ closeL = {}
  /\ closeQueued = FALSE
  /\ nOpen = 0
  /\ settled = <<>>
  /\ \E m0 \in {NoMedia, PageImg} :
       LET d == BuildAsset(variant, state)
           r == RenderAsset([width |-> 0, media |-> m0, nElem |-> m0.id, pending |-> {}], 1, d)
       IN  /\ asset = d
           /\ width = r.width
           /\ media = r.media
           /\ nElem = r.nElem
           /\ pending = r.pending
  /\ resolved = {}
  /\ nBuild = 1
  /\ nRender = 1
  /\ nOverlap = 0
  /\ last = Event("startup", "")
  /\ prev = state

Next ==
  \/ ClickReset
  \/ \E k \in Flags \ {"text"} : ClickToggle(k)
  \/ ClickTextOff
  \/ ClickTextOn
  \/ \E t \in TypedTexts : EditText(t)
  \/ \E c \in PickedColors : PickColor(c)
  \/ DialogOK
  \/ DialogCancel
  \/ DialogDismiss
  \/ CloseEvent
  \/ \E p \in pending : LoadComplete(p)

Spec == Init /\ [][Next]_vars

\* ---------------------------------------------------------------- properties
IsEffect(i) == i.op = "effect"

\* the names of the effect instructions of a descriptor, in list order
EffectList(d) ==
  LET e == SelectSeq(d.url.tr, IsEffect) IN [j \in 1..Len(e) |-> e[j].name]

\* the positions of the instructions of one kind in a descriptor
Positions(d, op) == {j \in 1..Len(d.url.tr) : d.url.tr[j].op = op}

\* the resize instruction of a descriptor
ResizeOf(d) == SelectSeq(d.url.tr, LAMBDA i : i.op = "fill")

FlagOfEffect(n) ==
  CASE n = "enhance"       -> "enhance"
    [] n = "cartoonify:20" -> "toon"
    [] n = "sepia"         -> "sepia"
    [] n = "grayscale"     -> "gray"

FlagIsOn(n) == state[FlagOfEffect(n)]

AnyEffect(s) == s.toon \/ s.sepia \/ s.gray \/ s.enhance

\* C1: video is never on together with toon, sepia, gray or enhance, in any
\* state a handler leaves behind; every descriptor is built from such a state.
C1_Exclusivity == ~(state.video /\ AnyEffect(state))

\* an effect was clicked while video was on, and the rule has turned video off
C1_Witness ==
  /\ last.ev = "toggle" /\ last.key \in Effects
  /\ prev.video /\ ~prev[last.key]
  /\ state[last.key]

\* C2: a reset click leaves every flag false and every button unmarked, and
\* leaves textContent and textColor as they were before the click.
C2_Reset ==
  last.ev = "reset" =>
    /\ \A f \in Flags : state[f] = FALSE /\ active[f] = FALSE
    /\ state.textContent = prev.textContent
    /\ state.textColor = prev.textColor

\* a reset of a state with flags on and with saved text and colour that are
\* not the defaults
C2_Witness ==
  /\ last.ev = "reset"
  /\ prev.text /\ prev.square
  /\ prev.textContent # InitialState(variant).textContent
  /\ prev.textColor = Red

C4_TextLast ==
  IF state.text
  THEN \E j \in 1..Len(asset.url.tr) :
         /\ Positions(asset, "overlay") = {j}
         /\ Positions(asset, "layer_apply") = {j + 1}
         /\ \A e \in Positions(asset, "effect") : e < j
  ELSE Positions(asset, "overlay") = {} /\ Positions(asset, "layer_apply") = {}

\* C5: a click on video while video is off leaves video on and toon, sepia,
\* gray and enhance off, with the buttons of those four unmarked.
C5_VideoClears ==
  (last.ev = "toggle" /\ last.key = "video" /\ ~prev.video) =>
    /\ state.video
    /\ \A f \in Effects : state[f] = FALSE /\ active[f] = FALSE

\* video was clicked in a state with toon and sepia on
C5_Witness ==
  /\ last.ev = "toggle" /\ last.key = "video"
  /\ prev.toon /\ prev.sepia /\ ~prev.video
  /\ state.video

\* C6: a click that turns an effect on while video is on leaves that effect on
\* and video off, and the descriptor built for it is an image with that one
\* effect entry; a click that turns an effect off leaves video as it was.
C6_EffectClears ==
  (last.ev = "toggle" /\ last.key \in Effects) =>
    /\ (prev.video /\ ~prev[last.key]) =>
          /\ state[last.key] /\ ~state.video
          /\ asset.type = "image"
          /\ Len(EffectList(asset)) = 1
          /\ FlagOfEffect(EffectList(asset)[1]) = last.key
    /\ prev[last.key] => (state.video = prev.video)

\* sepia was clicked in video mode: the descriptor is an image with sepia only
C6_Witness ==
  /\ last.ev = "toggle" /\ last.key = "sepia"
  /\ prev.video /\ prev.square
  /\ asset.type = "image"
  /\ EffectList(asset) = <<"sepia">>

\* C7: the descriptor is a video exactly when video is on, and its frame is
\* 333 by 333 when square is on and 500 by 333 otherwise, whatever the other
\* flags are.
C7_KindAndFrame ==
  /\ (asset.type = "video") = state.video
  /\ asset.type \in {"video", "image"}
  /\ Len(ResizeOf(asset)) = 1
  /\ LET r == ResizeOf(asset)[1]
     IN  /\ r.h = 333
         /\ r.w = IF state.square THEN 333 ELSE 500
         /\ asset.width = r.w

\* square, then video: a video descriptor in the square frame
C7_Witness ==
  /\ last.ev = "toggle" /\ last.key = "video"
  /\ prev.square /\ ~prev.video
  /\ asset.type = "video"
  /\ asset.width = 333

\* C8: a dialog ended by cancel, or dismissed, resolves to no result, changes
\* no field of the state and no button marker, and starts no build or render.
C8_CancelAborts ==
  [][ /\ last'.ev \in {"cancel", "dismiss"} =>
           /\ state' = state /\ active' = active
           /\ nBuild' = nBuild /\ nRender' = nRender
           /\ asset' = asset /\ pending' = pending
      /\ last'.ev = "cancel" => settled'[nOpen] = "null"
      /\ (last'.ev = "close" /\ settled[nOpen] = "pending") =>
           /\ settled'[nOpen] = "null"
           /\ state' = state /\ active' = active
           /\ nBuild' = nBuild /\ nRender' = nRender
           /\ asset' = asset /\ pending' = pending ]_vars

\* the user typed a text, picked a colour and then cancelled
C8_Witness ==
  /\ last.ev = "cancel"
  /\ settled[nOpen] = "null"
  /\ Trim(txtValue) # <<>> /\ txtValue # state.textContent
  /\ colValue # state.textColor
  /\ ~state.text

\* C9: reset, a toggle, text turned off and a confirmed dialog each make one
\* buildAsset call and one renderAsset call of what it returned, after the
\* state mutations of the click; every other event makes none.
C9_OneRebuild ==
  [][ LET changing == last'.ev \in {"reset", "toggle", "textOff", "ok"} \/ state' # state
      IN  /\ changing =>
                /\ nBuild' = nBuild + 1
                /\ nRender' = nRender + 1
                /\ asset' = BuildAsset(variant, state')
                /\ width' = asset'.width
                /\ \E p \in pending' : p.rid = nRender' /\ p.url = asset'.url
                /\ \A p \in pending' : p.rid <= nRender'
          /\ ~changing => (nBuild' = nBuild /\ nRender' = nRender /\ asset' = asset)
          /\ nBuild' = nRender' ]_vars

\* a cancelled dialog and two state-changing clicks after the startup render
C9_Witness ==
  /\ nOpen = 1 /\ settled[1] = "null"
  /\ last.ev = "toggle" /\ last.key = "video" /\ prev.sepia
  /\ nBuild = 3 /\ nRender = 3

\* C10: once an open has resolved and its close event has fired, none of the
\* listeners it registered on the confirm control, the cancel control or the
\* dialog is still registered.
C10_NoListenerLeak ==
  (~dlgOpen /\ ~closeQueued) => (okL = {} /\ cancelL = {} /\ closeL = {})

\* C11: whenever the displayed element is visible, its source is the url of
\* the descriptor built last and the load of that render has completed; from
\* the start of a render until its own load completes the element is hidden.
C11_NoStaleFrame ==
  /\ ~media.hidden => (media.src = asset.url /\ nRender \in resolved)
  /\ nRender \notin resolved => media.hidden

\* C12 (as claimed): a confirmed dialog leaves text on, textContent equal to
\* the confirmed text and textColor equal to the confirmed colour.
C12_ConfirmStoresText ==
  last.ev = "ok" =>
    /\ state.text
    /\ state.textContent = Trim(txtValue)
    /\ state.textColor = colValue

\* C12 (amended): a confirmed dialog leaves text on, textContent equal to the
\* confirmed text when that is not empty and unchanged when it is empty,
\* textColor equal to the confirmed colour and every other flag unchanged, and
\* the descriptor of that state is built and rendered; a text click while
\* text is on turns text off and opens no dialog.
C12_ConfirmStores ==
  /\ last.ev = "ok" =>
       /\ state.text /\ ~prev.text
       /\ state.textContent =
            IF Trim(txtValue) # <<>> THEN Trim(txtValue) ELSE prev.textContent
       /\ state.textColor = colValue
       /\ \A f \in Flags \ {"text"} : state[f] = prev[f]
       /\ active["text"]
       /\ asset = BuildAsset(variant, state)
       /\ \E p \in pending : p.rid = nRender /\ p.url = asset.url
  /\ last.ev = "open" => (~prev.text /\ state = prev)
  /\ last.ev = "textOff" =>
       /\ prev.text /\ ~dlgOpen
       /\ state = [prev EXCEPT !.text = FALSE]
       /\ asset = BuildAsset(variant, state)

\* the user typed a text with blanks around it, picked red and confirmed
C12_Witness ==
  /\ last.ev = "ok"
  /\ txtValue = <<SP, "Hi", SP, "you", SP>>
  /\ state.textContent = <<"Hi", SP, "you">>
  /\ state.textColor = Red /\ prev.textColor = White
  /\ state.text

\* normalize of the claim: "#rest" becomes "rgb:rest", an empty value becomes
\* white, any other value is returned unchanged
Normalize(value) ==
  IF value = <<>> THEN <<"white">>
  ELSE IF Head(value) = "#" THEN <<"rgb:">> \o Tail(value)
  ELSE value

\* the overlay instructions of a descriptor
OverlaysOf(d) == SelectSeq(d.url.tr, LAMBDA i : i.op = "overlay")

\* C13: with text on, the colour of the overlay instruction of the built
\* descriptor is normalize(textColor).
C13_NormalizedColor ==
  state.text =>
    /\ Len(OverlaysOf(asset)) = 1
    /\ OverlaysOf(asset)[1].color = Normalize(state.textColor)

\* C14: no sequence check discards a superseded completion: the completion of
\* any image preload whose target is still the displayed element, the latest
\* render's or an older one's, sets the element's source to that preload's url
\* and reveals it; so an older completion arriving after a newer one leaves
\* the older url visible.
C14_StaleRace ==
  [][ \A p \in pending :
        (last'.ev = "load" /\ pending' = pending \ {p}
           /\ p.type = "image" /\ p.el = media.id) =>
          /\ media'.src = p.url
          /\ ~media'.hidden
          /\ p.rid \in resolved' ]_vars

\* two clicks after the startup load, both preloads completed, the older one
\* last: the visible source is not the url built from the current state
C14_Witness ==
  /\ last.ev = "load"
  /\ nRender = 3 /\ resolved = {1, 2, 3} /\ pending = {}
  /\ media.tag = "IMG" /\ ~media.hidden
  /\ media.src # asset.url
  /\ media.src # NoSrc /\ media.src # HtmlSrc
  /\ asset = BuildAsset(variant, state)

\* the tag a descriptor needs
TagFor(d) == IF d.type = "video" THEN "VIDEO" ELSE "IMG"

\* C15: from the synchronous part of a render until the next render the
\* container holds one media element, a <video> exactly when the descriptor
\* rendered last is a video; a render reuses an element of the right kind and
\* replaces one of the wrong kind by a new element.
C15_ElementKind ==
  /\ media.tag = TagFor(asset)
  /\ [][ /\ media'.tag = TagFor(asset')
         /\ media'.tag \in {"IMG", "VIDEO"}
         /\ nRender' # nRender =>
              IF media.tag = TagFor(asset')
              THEN media'.id = media.id /\ nElem' = nElem
              ELSE media'.id = nElem + 1 /\ nElem' = nElem + 1 /\ media'.hidden
         /\ nRender' = nRender => (media'.id = media.id /\ media'.tag = media.tag) ]_vars

\* image, then video (a new element), then square in video mode (the <video>
\* is reused)
C15_Witness ==
  /\ last.ev = "toggle" /\ last.key = "square" /\ prev.video
  /\ nRender = 3 /\ nElem = 2
  /\ media.tag = "VIDEO" /\ media.id = 2
  /\ asset.type = "video"

\* C16: between handlers the container is 333 wide when square is on and 500
\* wide otherwise, whether or not a load is still in flight.
C16_WidthTracksSquare == width = IF state.square THEN 333 ELSE 500

\* square was just clicked: the container is 333 wide while the element is
\* still hidden and its load in flight
C16_Witness ==
  /\ last.ev = "toggle" /\ last.key = "square" /\ ~prev.square
  /\ width = 333
  /\ media.hidden /\ nRender \notin resolved
  /\ \E p \in pending : p.rid = nRender

\* C17: a step changes state.textContent or state.textColor only when it is the
\* OK click of the text dialog (reset, the toggles, text-off, cancel, dismiss
\* and the load completions leave both as they are), and each opening of the
\* dialog pre-fills its two inputs with the saved text and the saved colour.
C17_SavedTextPersists ==
  [][ /\ (state'.textContent # state.textContent \/ state'.textColor # state.textColor)
         => last'.ev = "ok"
      /\ nOpen' # nOpen
         => /\ txtValue' = state.textContent
            /\ colValue' = state.textColor
            /\ state' = state ]_vars

\* text was confirmed with a typed text and a picked colour, turned off, and
\* the dialog opened a second time: it shows the saved values
C17_Witness ==
  /\ last.ev = "open" /\ nOpen = 2 /\ dlgOpen
  /\ ~state.text
  /\ state.textContent = <<"Hi", SP, "you">> /\ state.textColor = Red
  /\ txtValue = <<"Hi", SP, "you">> /\ colValue = Red

\* C18: a click on square changes the square flag and nothing else of the
\* state; a completed text toggle (text-off, or OK of the dialog) changes text
\* and, on OK, textContent and textColor, and nothing else; a click on toon,
\* sepia, gray, enhance or video leaves square and text as they were; square
\* changes only by its own click or reset, text only by its own toggle or reset.
C18_SquareTextIndependent ==
  [][ /\ (last'.ev = "toggle" /\ last'.key = "square" /\ nBuild' # nBuild)
         => state' = [state EXCEPT !.square = ~state.square]
      /\ (last'.ev \in {"textOff", "ok"} /\ nBuild' # nBuild)
         => /\ state'.text # state.text
            /\ \A f \in Flags \ {"text"} : state'[f] = state[f]
      /\ (last'.ev = "textOff" /\ nBuild' # nBuild)
         => state' = [state EXCEPT !.text = FALSE]
      /\ (last'.ev = "toggle" /\ last'.key \in Effects \cup {"video"} /\ nBuild' # nBuild)
         => /\ state'.square = state.square
            /\ state'.text = state.text
            /\ state'[last'.key] # state[last'.key]
      /\ state'.square # state.square
         => \/ last'.ev = "reset"
            \/ last'.ev = "toggle" /\ last'.key = "square"
      /\ state'.text # state.text
         => last'.ev \in {"reset", "textOff", "ok"} ]_vars

\* with square and text both on, video was clicked: both stay on
C18_Witness ==
  /\ last.ev = "toggle" /\ last.key = "video"
  /\ state.video /\ ~prev.video
  /\ prev.square /\ prev.text
  /\ state.square /\ state.text

\* the names of the still-image effect instructions
StillEffects == {"enhance", "cartoonify:20", "sepia", "grayscale"}

\* C19: every descriptor of kind video that buildAsset builds has no enhance,
\* cartoonify, sepia or grayscale instruction: it is built from a state on
\* which the exclusivity rules have already run, so no effect flag is on.
C19_VideoNoEffects ==
  asset.type = "video" =>
    /\ \A j \in 1..Len(asset.url.tr) : asset.url.tr[j].name \notin StillEffects
    /\ EffectList(asset) = <<>>
    /\ \A f \in Effects : ~state[f]

\* video was clicked while enhance and another effect were on: the descriptor
\* built in that click is a video without effect instructions
C19_Witness ==
  /\ last.ev = "toggle" /\ last.key = "video"
  /\ prev.enhance /\ \E f \in Effects \ {"enhance"} : prev[f]
  /\ asset.type = "video" /\ asset = BuildAsset(variant, state)
  /\ EffectList(asset) = <<>>

\* C20: a render resolves only when the load it requested has completed, never
\* before, and every render resolves once its load completes, the renders
\* superseded by a newer one included: when no load is in flight any more,
\* every render started so far has resolved.
C20_EveryRenderResolves ==
  /\ resolved \subseteq 1..nRender
  /\ \A p \in pending : p.rid \notin resolved
  /\ pending = {} => resolved = 1..nRender

\* C21: between handlers, each of the buttons text, square, toon, sepia, gray,
\* video and enhance carries the active marker exactly when its flag is true in
\* the state, also for flags cleared by an exclusivity rule or by reset.
C21_MarkersMirrorState == \A f \in Flags : active[f] <=> state[f]

\* video was clicked while square and enhance were on: enhance is cleared by
\* the exclusivity rule and its button unmarked, square and video are marked
C21_Witness ==
  /\ last.ev = "toggle" /\ last.key = "video"
  /\ prev.square /\ prev.enhance
  /\ ~state.enhance /\ ~active["enhance"]
  /\ state.video /\ active["video"]
  /\ state.square /\ active["square"]

\* C22: the completion of a load of a superseded render leaves the current
\* element as it is when that element was created after the render started; a
\* superseded completion that does change the current element is an image
\* load on the <img> it was started for; and a current <video> element always
\* has the url of the latest descriptor as its source.
C22_RaceConfined ==
  /\ media.tag = "VIDEO" => media.src = asset.url
  /\ [][ \A p \in pending :
           (last'.ev = "load" /\ pending' = pending \ {p} /\ p.rid # nRender)
           => /\ p.el # media.id => media' = media
              /\ media' # media
                 => (p.type = "image" /\ media.tag = "IMG" /\ p.el = media.id) ]_vars

\* an image preload completed after a video click had replaced the <img>: the
\* new <video> is still hidden, loading, with the video url as its source
C22_Witness ==
  /\ last.ev = "load"
  /\ media.tag = "VIDEO" /\ media.hidden /\ media.src = asset.url
  /\ nRender \notin resolved /\ (nRender - 1) \in resolved
  /\ \E p \in pending : p.rid = nRender /\ p.type = "video" /\ p.el = media.id

\* C23: the promise of each openTextDialog call settles once, by the first OK,
\* cancel or dismissal of its own open and with the inputs of that moment: an
\* open starts only when every earlier promise is settled, a settled promise
\* keeps its value whatever listeners of earlier opens run later, an OK click
\* resolves the current open with the current inputs and causes one state
\* change and one rebuild, and a cancel, a dismissal and the close event
\* resolve it to null with no state change and no rebuild.
C23_NoCrossWiring ==
  [][ /\ \A i \in 1..nOpen : settled[i] # "pending" => settled'[i] = settled[i]
      /\ nOpen' # nOpen => \A i \in 1..nOpen : settled[i] # "pending"
      /\ (dlgOpen /\ ~dlgOpen' /\ last'.ev = "ok")
         => /\ settled[nOpen] = "pending" /\ settled'[nOpen] = "value"
            /\ state'.text
            /\ state'.textContent = IF Trim(txtValue) # <<>> THEN Trim(txtValue)
                                    ELSE state.textContent
            /\ state'.textColor = colValue
            /\ nBuild' = nBuild + 1
      /\ (dlgOpen /\ ~dlgOpen' /\ last'.ev = "cancel")
         => /\ settled[nOpen] = "pending" /\ settled'[nOpen] = "null"
            /\ state' = state /\ nBuild' = nBuild
      /\ (dlgOpen /\ ~dlgOpen' /\ last'.ev = "dismiss")
         => /\ settled' = settled
            /\ state' = state /\ nBuild' = nBuild
      /\ (closeQueued /\ ~closeQueued')
         => /\ settled'[nOpen] = IF settled[nOpen] = "pending" THEN "null"
                                 ELSE settled[nOpen]
            /\ state' = state /\ nBuild' = nBuild ]_vars

\* the first open was cancelled or dismissed, leaving its OK listener behind;
\* the second open was confirmed with a typed text and a picked colour
C23_Witness ==
  /\ last.ev = "ok" /\ nOpen = 2
  /\ settled = <<"null", "value">>
  /\ state.text
  /\ state.textContent = <<"Hi", SP, "you">> /\ state.textColor = Red

====
